---- MODULE Spec2Model ----
(***************************************************************************)
(* Model of the quokka-alias extension (src/src/includeAliases.ts and      *)
(* src/src/utils): the command that derives Quokka aliases from the        *)
(* imports of the active TypeScript file and merges them into .quokka.     *)
(*                                                                         *)
(* Strings are sequences of symbols.  A symbol is one character of the     *)
(* modelled alphabet ("@", "/", ".", "*", a one-word name such as "b" or   *)
(* "sub", or one of the fixed words ".ts", ".js", "index", ".quokka",      *)
(* "tsconfig.json").  Every string operation of the code (startsWith,      *)
(* replace, concatenation, path.join, path.resolve, path.dirname) is       *)
(* computed on these sequences.                                            *)
(***************************************************************************)
EXTENDS Integers, Sequences, FiniteSets, TLC

VARIABLES
  files,        \* the file tree: existing source file |-> its lines (one import statement each)
  tsConfig,     \* parsed content of tsconfig.json
  quokka,       \* parsed content of the .quokka file
  activeFile,   \* vscode.window.activeTextEditor.document.fileName
  pc,           \* position of the includeAliases command
  newAliases,   \* the traversal result held by updateQuokkaAliases
  tsConfigPath, \* the path found by getTsConfigPath, kept across the await
  errorMessage, \* the message shown by showErrorMessage, "" when none
  log,          \* file reads and writes of the running command, in order
  nestedConfigs, \* paths of the tsconfig.json files below the workspace root
  nestedQuokka, \* the .quokka files below the workspace root: path |-> content
  unreadable,   \* existing source files that fs.readFileSync fails on
  history       \* what the earlier invocations of the command ended with

vars == <<files, tsConfig, quokka, activeFile, pc, newAliases, tsConfigPath,
          errorMessage, log, nestedConfigs, nestedQuokka, unreadable, history>>

\* the variables that the set-up of the file tree leaves alone
nested == <<nestedConfigs, nestedQuokka, unreadable, history>>

----------------------------------------------------------------------------
(* Bounds of the model *)

MaxFiles == 2      \* files created next to the active file
MaxImports == 2    \* import statements in the whole file tree
MaxRuns == 2       \* invocations of the command

\* The deepest nesting of generateNewAliases that a traversal without a
\* repeated file can reach: one frame per existing file.  A deeper call has
\* a file twice on the call stack, and the code then recurses until the
\* engine's call stack is exhausted.
MaxStack == MaxFiles + 1

----------------------------------------------------------------------------
(* Strings *)

startsWith(s, p) == Len(p) <= Len(s) /\ SubSeq(s, 1, Len(p)) = p

endsWith(s, p) == Len(p) <= Len(s) /\ SubSeq(s, Len(s) - Len(p) + 1, Len(s)) = p

\* index of the first occurrence of pat in s, 0 when there is none
indexOf(s, pat) ==
  LET hits == {i \in 1..(Len(s) - Len(pat) + 1) : SubSeq(s, i, i + Len(pat) - 1) = pat}
  IN IF hits = {} THEN 0 ELSE CHOOSE i \in hits : \A j \in hits : i <= j

\* String.prototype.replace with a string pattern: the first occurrence only
replace(s, pat, rep) ==
  LET i == indexOf(s, pat)
  IN IF i = 0 THEN s
     ELSE SubSeq(s, 1, i - 1) \o rep \o SubSeq(s, i + Len(pat), Len(s))

RECURSIVE split(_)
\* String.prototype.split('/'): the segments between the separators
split(s) ==
  LET i == indexOf(s, <<"/">>)
  IN IF i = 0 THEN <<s>>
     ELSE <<SubSeq(s, 1, i - 1)>> \o split(SubSeq(s, i + 1, Len(s)))

RECURSIVE joinSep(_)
\* Array.prototype.join('/')
joinSep(segs) ==
  IF Len(segs) = 0 THEN <<>>
  ELSE IF Len(segs) = 1 THEN segs[1]
  ELSE segs[1] \o <<"/">> \o joinSep(Tail(segs))

----------------------------------------------------------------------------
(* node's path module (posix) *)

RECURSIVE normalizeSegs(_, _, _)
\* resolves '.', '..' and empty segments, left to right
normalizeSegs(segs, out, abs) ==
  IF Len(segs) = 0 THEN out
  ELSE LET h == Head(segs) IN
    IF h = <<>> \/ h = <<".">> THEN normalizeSegs(Tail(segs), out, abs)
    ELSE IF h = <<".", ".">> THEN
      IF Len(out) > 0 /\ out[Len(out)] # <<".", ".">>
        THEN normalizeSegs(Tail(segs), SubSeq(out, 1, Len(out) - 1), abs)
      ELSE IF abs THEN normalizeSegs(Tail(segs), out, abs)
      ELSE normalizeSegs(Tail(segs), Append(out, h), abs)
    ELSE normalizeSegs(Tail(segs), Append(out, h), abs)

pathNormalize(p) ==
  IF Len(p) = 0 THEN <<".">>
  ELSE LET abs == p[1] = "/"
           trailing == p[Len(p)] = "/"
           body == joinSep(normalizeSegs(split(p), <<>>, abs))
       IN IF Len(body) = 0
            THEN (IF abs THEN <<"/">> ELSE IF trailing THEN <<".", "/">> ELSE <<".">>)
            ELSE (IF abs THEN <<"/">> ELSE <<>>) \o body
                 \o (IF trailing THEN <<"/">> ELSE <<>>)

\* path.join: the non-empty arguments joined by '/', then normalized
pathJoin(parts) ==
  pathNormalize(joinSep(SelectSeq(parts, LAMBDA x : Len(x) > 0)))

\* path.dirname
pathDirname(p) ==
  LET slashes == {i \in 2..Len(p) : p[i] = "/" /\ i < Len(p)}
  IN IF slashes = {}
       THEN (IF Len(p) > 0 /\ p[1] = "/" THEN <<"/">> ELSE <<".">>)
       ELSE SubSeq(p, 1, (CHOOSE i \in slashes : \A j \in slashes : j <= i) - 1)

\* path.resolve(from, to) for an absolute `from`: the normalized absolute
\* path without a trailing separator
pathResolve(from, to) ==
  LET joined == IF Len(to) > 0 /\ to[1] = "/" THEN to ELSE from \o <<"/">> \o to
      n == pathNormalize(joined)
  IN IF Len(n) > 1 /\ n[Len(n)] = "/" THEN SubSeq(n, 1, Len(n) - 1) ELSE n

----------------------------------------------------------------------------
(* The modelled workspace *)

\* vscode.workspace.workspaceFolders[0].uri.fsPath
WorkspaceRoot == <<"/", "w">>

TsConfigFile == WorkspaceRoot \o <<"/", "tsconfig.json">>
QuokkaFile == WorkspaceRoot \o <<"/", ".quokka">>

\* the file open in the editor
ActiveTs == WorkspaceRoot \o <<"/", "a", ".ts">>

\* files that may exist next to it
FileB == WorkspaceRoot \o <<"/", "b", ".ts">>
FileSubB == WorkspaceRoot \o <<"/", "sub", "/", "b", ".ts">>
FileOB == WorkspaceRoot \o <<"/", "o", "/", "b", ".ts">>
OptionalFiles == {FileB, FileSubB, FileOB}

\* the import specifiers a file may contain
SpecAtB == <<"@", "/", "b">>               \* '@/b'
SpecDotB == <<".", "/", "b">>              \* './b'
SpecAtSubB == <<"@", "/", "sub", "/", "b">> \* '@/sub/b'
SpecBare == <<"b">>                        \* 'b', a package name
Specifiers == {SpecAtB, SpecAtSubB, SpecDotB, SpecBare}

\* entries of compilerOptions.paths: <<pattern, candidates>>
PathAt == << <<"@", "/", "*">>,
             << <<".", "/", "*">>, <<".", "/", "o", "/", "*">> >> >>
PathAtOnly == << <<"@", "/", "*">>, << <<".", "/", "*">> >> >>
PathAtSub == << <<"@", "/", "sub", "/", "*">>, << <<".", "/", "o", "/", "*">> >> >>
PathMappings == {PathAt, PathAtOnly, PathAtSub}

\* the alias mapping of the .quokka file before the command
OldAlias ==
  (<<"@", "/", "qux">> :> <<".", "/", "qux">>) @@ (SpecAtB :> <<".", "/", "stale">>)

----------------------------------------------------------------------------
(* src/src/utils *)

\* fs.existsSync on the source files of a file tree
existsSync(fsys, p) == p \in DOMAIN fsys

EXTS == << <<".ts">>, <<".js">> >>

PathSuffixes == << <<>>, <<"/", "index">> >>

\* the value `false` returned by assertFileExists
NotFound == <<>>

\* the loops the other way round: extensions outer, suffixes inner
probePathExtensionsOuter(filePath, k) ==
  filePath \o PathSuffixes[((k - 1) % Len(PathSuffixes)) + 1]
           \o EXTS[((k - 1) \div Len(PathSuffixes)) + 1]

\* the k-th path tried by assertFileExists: suffixes outer, extensions inner
probePath(filePath, k) ==
  filePath \o PathSuffixes[((k - 1) \div Len(EXTS)) + 1] \o EXTS[((k - 1) % Len(EXTS)) + 1]

assertFileExists(fsys, filePath) ==
  LET n == Len(PathSuffixes) * Len(EXTS)
      hits == {k \in 1..n : existsSync(fsys, probePath(filePath, k))}
  IN IF hits = {} THEN NotFound
     ELSE probePath(filePath, CHOOSE k \in hits : \A j \in hits : k <= j)

\* every line of a modelled file is one statement  import ... from '<from>' ;
\* the regular expression captures the quoted specifier of each, in order
findImportStatements(fileContent) ==
  [i \in 1..Len(fileContent) |-> fileContent[i].from]

getWorkspaceRoot == WorkspaceRoot

getPathToQuokkaFile(quokkaPath) ==
  replace(replace(quokkaPath, WorkspaceRoot, <<>>), <<".quokka">>, <<>>)

\* Object.entries(tsConfig.compilerOptions.paths || {})
parseTsConfigPaths(cfg) == IF cfg.hasPaths THEN cfg.paths ELSE <<>>

----------------------------------------------------------------------------
(* src/src/includeAliases.ts: the traversal *)

\* RangeError thrown by the engine when the call stack is exhausted
StackOverflow == "Maximum call stack size exceeded"

\* Object.assign(target, source)
assign(target, source) ==
  [k \in (DOMAIN target) \cup (DOMAIN source) |->
     IF k \in DOMAIN source THEN source[k] ELSE target[k]]

\* Error thrown by fs.readFileSync on a file it cannot read
ReadError == "EACCES: permission denied, open"

\* swallows the error and reads an unreadable file as empty
readFileSyncOrEmpty(fsys, filePath) ==
  [err |-> "", content |-> IF filePath \in unreadable THEN <<>> ELSE fsys[filePath]]

\* fs.readFileSync(filePath, 'utf-8') on the source files of a file tree
readFileSync(fsys, filePath) ==
  IF filePath \in unreadable
    THEN [err |-> ReadError, content |-> <<>>]
    ELSE [err |-> "", content |-> fsys[filePath]]

\* one entry of the log
event(op, path, alias) == [op |-> op, path |-> path, alias |-> alias]

\* the outcome of a call: the thrown error ("" when it returns), whether the
\* returned value is undefined, the returned object, and the file reads and
\* the assignments  newAliases[key] = value  it made, in order
outcome(e, u, a, t) == [err |-> e, undef |-> u, aliases |-> a, trace |-> t]

\* a miss raises an error instead of being skipped
skippedThrows(trace) == outcome("File not found", FALSE, <<>>, trace)

\* a bare `return`: the value undefined
skipped(trace) == outcome("", TRUE, <<>>, trace)

\* the alias prefix of an entry: its pattern without the wildcard
aliasKey(tsPath) == replace(tsPath[1], <<"/", "*">>, <<>>)

\* takes the last candidate of an entry
aliasValueLast(tsPath) == replace(tsPath[2][Len(tsPath[2])], <<"/", "*">>, <<>>)

\* the target prefix of an entry: its first candidate without the wildcard
aliasValue(tsPath) == replace(tsPath[2][1], <<"/", "*">>, <<>>)

\* records the resolved file instead of the substituted path
aliasEntryFullPath(importPath, newAlias, fullPath) == (importPath :> fullPath)

\* newAliases[importPath] = newAlias
aliasEntry(importPath, newAlias, fullPath) == (importPath :> newAlias)

\* also saves the entry to the .quokka file as soon as it is found
recordedAndSaved(importPath, entry) ==
  <<event("assign", importPath, entry), event("write", QuokkaFile, entry)>>

\* what the statement  newAliases[importPath] = newAlias  does: an
\* assignment to the local object, no file is touched
recorded(importPath, entry) == <<event("assign", importPath, entry)>>

\* {...value}: spreading undefined gives no property
spread(o) == IF o.undef THEN <<>> ELSE o.aliases

RECURSIVE generateNewAliases(_, _, _, _, _)
RECURSIVE tsPathLoop(_, _, _, _, _, _, _)
RECURSIVE importLoop(_, _, _, _, _, _, _)

\* the for loop of generateAliasForTsPath from its i-th entry on, with the
\* object built and the trace so far in acc
tsPathLoop(fsys, importPath, tsPaths, quokkaDir, depth, i, acc) ==
  LET \* the end of an iteration: the entry is recorded, and the aliases
      \* found below it are merged unless the recursive call threw
      iterationEnd(entry, traversedAliases) ==
        LET trace == acc.trace \o recorded(importPath, entry)
                       \o traversedAliases.trace
        IN IF traversedAliases.err # ""
             THEN outcome(traversedAliases.err, FALSE, <<>>, trace)
           ELSE tsPathLoop(fsys, importPath, tsPaths, quokkaDir, depth, i + 1,
                  outcome("", FALSE,
                    assign(assign(acc.aliases, entry), traversedAliases.aliases),
                    trace))
      \* an iteration after the existence probe
      probed(newAlias, fullPath) ==
        IF fullPath = NotFound
          THEN skipped(acc.trace)
        ELSE iterationEnd(aliasEntry(importPath, newAlias, fullPath),
               generateNewAliases(fsys, fullPath, tsPaths, quokkaDir, depth + 1))
      \* an iteration after the substitution
      substituted(newAlias) ==
        probed(newAlias,
               assertFileExists(fsys,
                 pathJoin(<<getWorkspaceRoot, quokkaDir, newAlias>>)))
      \* one iteration, for the entry tsPath with alias prefix key
      iteration(tsPath, key) ==
        IF ~startsWith(importPath, key)
          THEN skipped(acc.trace)
        ELSE substituted(replace(importPath, key, aliasValue(tsPath)))
  IN IF i > Len(tsPaths) THEN acc
     ELSE iteration(tsPaths[i], aliasKey(tsPaths[i]))

generateAliasForTsPath(fsys, importPath, tsPaths, quokkaDir, depth) ==
  tsPathLoop(fsys, importPath, tsPaths, quokkaDir, depth, 1,
             outcome("", FALSE, <<>>, <<>>))

\* resolves every specifier against the importing file's directory
traverseAnyPath(fsys, importPath, filePath, tsPaths, quokkaDir, depth) ==
  LET traverse(resolvedPath) ==
        IF resolvedPath = NotFound
          THEN skipped(<<>>)
        ELSE generateNewAliases(fsys, resolvedPath, tsPaths, quokkaDir, depth + 1)
  IN traverse(assertFileExists(fsys,
                pathResolve(pathDirname(filePath), importPath)))

traverseRelativePaths(fsys, importPath, filePath, tsPaths, quokkaDir, depth) ==
  LET traverse(resolvedPath) ==
        IF resolvedPath = NotFound
          THEN skipped(<<>>)
        ELSE generateNewAliases(fsys, resolvedPath, tsPaths, quokkaDir, depth + 1)
  IN IF ~startsWith(importPath, <<".">>)
       THEN skipped(<<>>)
     ELSE traverse(assertFileExists(fsys,
                     pathResolve(pathDirname(filePath), importPath)))

\* the for loop of generateNewAliases over importPaths from the i-th on
importLoop(fsys, filePath, tsPaths, quokkaDir, depth, i, acc) ==
  LET importPaths == findImportStatements(readFileSync(fsys, filePath).content)
      \* the end of an iteration: the spread of both results into newAliases
      iterationEnd(a, r) ==
        IF r.err # ""
          THEN outcome(r.err, FALSE, <<>>, acc.trace \o a.trace \o r.trace)
        ELSE importLoop(fsys, filePath, tsPaths, quokkaDir, depth, i + 1,
               outcome("", FALSE,
                 assign(acc.aliases, assign(spread(a), spread(r))),
                 acc.trace \o a.trace \o r.trace))
      \* an iteration after generateAliasForTsPath ended with a
      aliased(importPath, a) ==
        IF a.err # ""
          THEN outcome(a.err, FALSE, <<>>, acc.trace \o a.trace)
        ELSE iterationEnd(a, traverseRelativePaths(fsys, importPath, filePath,
                                                   tsPaths, quokkaDir, depth))
      iteration(importPath) ==
        aliased(importPath,
                generateAliasForTsPath(fsys, importPath, tsPaths, quokkaDir, depth))
  IN IF i > Len(importPaths) THEN acc
     ELSE iteration(importPaths[i])

\* keeps the files of the earlier invocations as visited and skips them
generateNewAliasesVisitedKept(fsys, filePath, tsPaths, quokkaDir, depth) ==
  LET traverse(fileContent) ==
        IF fileContent.err # ""
          THEN outcome(fileContent.err, FALSE, <<>>, <<>>)
        ELSE importLoop(fsys, filePath, tsPaths, quokkaDir, depth, 1,
               outcome("", FALSE, <<>>, <<event("read", filePath, <<>>)>>))
  IN IF \E n \in 1..Len(history) : \E i \in 1..Len(history[n].log) :
          history[n].log[i].op = "read" /\ history[n].log[i].path = filePath
       THEN outcome("", FALSE, <<>>, <<>>)
     ELSE IF depth > MaxStack THEN outcome(StackOverflow, FALSE, <<>>, <<>>)
     ELSE traverse(readFileSync(fsys, filePath))

\* depth is the number of generateNewAliases frames on the call stack
generateNewAliases(fsys, filePath, tsPaths, quokkaDir, depth) ==
  LET traverse(fileContent) ==
        IF fileContent.err # ""
          THEN outcome(fileContent.err, FALSE, <<>>, <<>>)
        ELSE importLoop(fsys, filePath, tsPaths, quokkaDir, depth, 1,
               outcome("", FALSE, <<>>, <<event("read", filePath, <<>>)>>))
  IN IF depth > MaxStack THEN outcome(StackOverflow, FALSE, <<>>, <<>>)
     ELSE traverse(readFileSync(fsys, filePath))

\* the files read in a trace, in order
pathsRead(trace) ==
  LET rd == SelectSeq(trace, LAMBDA e : e.op = "read")
  IN [i \in 1..Len(rd) |-> rd[i].path]

----------------------------------------------------------------------------
(* The command and the file system it runs on *)

\* activeTextEditor is undefined
NoFile == <<>>

\* fs.existsSync on the whole disk
diskExists(p) ==
  \/ existsSync(files, p)
  \/ (p = TsConfigFile /\ tsConfig.exists)
  \/ (p = QuokkaFile /\ quokka.exists)
  \/ p \in nestedConfigs
  \/ p \in DOMAIN nestedQuokka

getActiveFilePath ==
  IF activeFile = NoFile
    THEN [err |-> "No file is active", value |-> <<>>]
  ELSE IF ~endsWith(activeFile, <<".ts">>)
    THEN [err |-> "Current file is not a typescript file", value |-> <<>>]
  ELSE [err |-> "", value |-> activeFile]

getBaseDir == WorkspaceRoot

\* walks from the workspace root down and takes the first tsconfig.json
tsConfigLoopFromRoot(dirPathsToCheck) ==
  LET at(n) == pathJoin(<<getBaseDir, joinSep(SubSeq(dirPathsToCheck, 1, n)),
                          <<"tsconfig.json">> >>)
      hits == {n \in 1..Len(dirPathsToCheck) : diskExists(at(n))}
  IN IF hits = {} THEN <<>>
     ELSE at(CHOOSE n \in hits : \A m \in hits : n <= m)

RECURSIVE tsConfigLoop(_)
\* the while loop of getTsConfigPath: '' when no directory has a tsconfig.json
tsConfigLoop(dirPathsToCheck) ==
  IF Len(dirPathsToCheck) = 0 THEN <<>>
  ELSE
    LET tsConfigPathToCheck ==
          pathJoin(<<getBaseDir, joinSep(dirPathsToCheck), <<"tsconfig.json">> >>)
    IN IF diskExists(tsConfigPathToCheck) THEN tsConfigPathToCheck
       ELSE tsConfigLoop(SubSeq(dirPathsToCheck, 1, Len(dirPathsToCheck) - 1))

getTsConfigPath(filepath) ==
  LET dirPath == replace(filepath, getBaseDir, <<>>)
      found == tsConfigLoop(split(dirPath))
  IN IF ~diskExists(found)
       THEN [err |-> "No tsconfig.json file found higher up in the directory",
             value |-> <<>>]
       ELSE [err |-> "", value |-> found]

RECURSIVE countImports(_, _)
\* number of import statements in the files of set fs
countImports(fsys, fs) ==
  IF fs = {} THEN 0
  ELSE LET f == CHOOSE x \in fs : TRUE
       IN Len(fsys[f]) + countImports(fsys, fs \ {f})

Init ==
  /\ files = (ActiveTs :> <<>>)
  /\ tsConfig = [exists |-> TRUE, hasPaths |-> TRUE, paths |-> <<>>]
  /\ quokka = [exists |-> TRUE, plugins |-> <<"alias-quokka-plugin">>,
               alias |-> OldAlias]
  /\ activeFile = ActiveTs
  /\ pc = "idle"
  /\ newAliases = <<>>
  /\ tsConfigPath = <<>>
  /\ errorMessage = ""
  /\ log = <<>>
  /\ nestedConfigs = {}
  /\ nestedQuokka = <<>>
  /\ unreadable = {}
  /\ history = <<>>

\* the user creates a source file
CreateFile(f) ==
  /\ pc = "idle"
  /\ f \notin DOMAIN files
  /\ Cardinality(DOMAIN files) - 1 < MaxFiles
  /\ files' = files @@ (f :> <<>>)
  /\ UNCHANGED <<tsConfig, quokka, activeFile, pc, newAliases, tsConfigPath,
                 errorMessage, log, nested>>

\* the user adds the line  import ... from '<s>'  at the end of file f
AddImport(f, s) ==
  /\ pc = "idle"
  /\ f \in DOMAIN files
  /\ countImports(files, DOMAIN files) < MaxImports
  /\ files' = [files EXCEPT ![f] = Append(@, [from |-> s])]
  /\ UNCHANGED <<tsConfig, quokka, activeFile, pc, newAliases, tsConfigPath,
                 errorMessage, log, nested>>

\* the user adds an entry to compilerOptions.paths; the keys of an object
\* are distinct
AddPathMapping(m) ==
  /\ pc = "idle"
  /\ \A i \in 1..Len(tsConfig.paths) : tsConfig.paths[i][1] # m[1]
  /\ tsConfig' = [tsConfig EXCEPT !.paths = Append(@, m)]
  /\ UNCHANGED <<files, quokka, activeFile, pc, newAliases, tsConfigPath,
                 errorMessage, log, nested>>

\* the catch block of includeAliases
showErrorMessage(message) ==
  /\ errorMessage' = message
  /\ pc' = "done"

\* the .quokka file next to the tsconfig.json that was found
quokkaPathOf(path) == replace(path, <<"tsconfig.json">>, <<".quokka">>)

\* includeAliases up to the await of assertQuokkaFileExists
IncludeAliasesStart ==
  /\ pc = "idle"
  /\ LET filePath == getActiveFilePath
     IN IF filePath.err # ""
          THEN showErrorMessage(filePath.err) /\ UNCHANGED tsConfigPath
        ELSE
          LET found == getTsConfigPath(filePath.value)
          IN IF found.err # ""
               THEN showErrorMessage(found.err) /\ UNCHANGED tsConfigPath
             ELSE
               LET quokkaPath == quokkaPathOf(found.value)
               IN /\ tsConfigPath' = found.value
                  /\ pc' = IF diskExists(quokkaPath) THEN "awaited" ELSE "askCreate"
                  /\ UNCHANGED errorMessage
  /\ UNCHANGED <<files, tsConfig, quokka, activeFile, newAliases, log, nested>>

\* JSON.parse(fs.readFileSync(quokkaPath, 'utf-8'))
quokkaAt(quokkaPath) ==
  IF quokkaPath = QuokkaFile THEN quokka ELSE nestedQuokka[quokkaPath]

\* fs.writeFileSync(quokkaPath, JSON.stringify(doc, null, 2))
writeFileSync(quokkaPath, doc) ==
  IF quokkaPath = QuokkaFile
    THEN quokka' = doc /\ UNCHANGED nestedQuokka
    ELSE nestedQuokka' = (quokkaPath :> doc) @@ nestedQuokka /\ UNCHANGED quokka

\* the document written by createQuokkaFile
Skeleton ==
  [exists |-> TRUE, plugins |-> <<"alias-quokka-plugin">>, alias |-> <<>>]

\* the error thrown at the end of assertQuokkaFileExists
NoQuokkaFile == "No .quokka file found higher up in the directory tree."

\* assertQuokkaFileExists after the first prompt: the user's selection is
\* 'Yes', 'No', or "" when the message is dismissed
AnswerCreate(selection) ==
  /\ pc = "askCreate"
  /\ IF selection = "Yes"
       THEN /\ writeFileSync(quokkaPathOf(tsConfigPath), Skeleton)
            /\ log' = Append(log, event("create", quokkaPathOf(tsConfigPath),
                                        Skeleton.alias))
            /\ pc' = "askShow"
            /\ UNCHANGED errorMessage
       ELSE /\ showErrorMessage(NoQuokkaFile)
            /\ UNCHANGED <<quokka, nestedQuokka, log>>
  /\ UNCHANGED <<files, tsConfig, activeFile, newAliases, tsConfigPath,
                 nestedConfigs, unreadable, history>>

\* returns true after the file was created, so that the command goes on
AnswerShowAndGoOn(selection) ==
  /\ pc = "askShow"
  /\ activeFile' = activeFile
  /\ pc' = "awaited"
  /\ UNCHANGED <<files, tsConfig, quokka, newAliases, tsConfigPath, log, nested,
                 errorMessage>>

\* assertQuokkaFileExists after the second prompt: 'Show .quokka file' opens
\* the new file in the editor; the function throws in every case
AnswerShow(selection) ==
  /\ pc = "askShow"
  /\ activeFile' = IF selection = "Show .quokka file"
                     THEN quokkaPathOf(tsConfigPath) ELSE activeFile
  /\ showErrorMessage(NoQuokkaFile)
  /\ UNCHANGED <<files, tsConfig, quokka, newAliases, tsConfigPath, log, nested>>

\* builds a new document, as createQuokkaFile does, around the aliases
freshConfig(quokkaConfig, updatedAliases) ==
  [exists |-> TRUE, plugins |-> <<"alias-quokka-plugin">>, alias |-> updatedAliases]

\* quokkaConfig.alias = updatedAliases
withAlias(quokkaConfig, updatedAliases) ==
  [quokkaConfig EXCEPT !.alias = updatedAliases]

\* writes the new aliases in place of the existing ones
updateQuokkaFileReplacing(quokkaConfig, aliases) ==
  withAlias(quokkaConfig, aliases)

\* updateQuokkaFile: the merged document that is written
updateQuokkaFile(quokkaConfig, aliases) ==
  withAlias(quokkaConfig, assign(quokkaConfig.alias, aliases))

\* includeAliases after the await: getTsConfig and updateQuokkaAliases
IncludeAliasesResume ==
  /\ pc = "awaited"
  /\ LET \* updateQuokkaAliases after generateNewAliases ended with t
         update(quokkaPath, quokkaConfig, reads, t) ==
           IF t.err # ""
             THEN /\ showErrorMessage(t.err)
                  /\ log' = log \o reads \o t.trace
                  /\ UNCHANGED <<quokka, nestedQuokka, newAliases>>
           ELSE
             LET written == updateQuokkaFile(quokkaConfig, t.aliases)
             IN /\ newAliases' = t.aliases
                /\ writeFileSync(quokkaPath, written)
                /\ log' = log \o reads \o t.trace
                             \o <<event("write", quokkaPath, written.alias)>>
                /\ pc' = "done"
                /\ UNCHANGED errorMessage
         \* the .quokka file is parsed, then the imports are traversed
         traverse(quokkaPath, quokkaConfig) ==
           update(quokkaPath, quokkaConfig,
                  <<event("read", tsConfigPath, <<>>),
                    event("read", quokkaPath, quokkaConfig.alias)>>,
                  generateNewAliases(files, activeFile, parseTsConfigPaths(tsConfig),
                                     getPathToQuokkaFile(quokkaPath), 1))
         resume(quokkaPath) ==
           IF ~tsConfig.hasPaths
             THEN /\ showErrorMessage("No paths key found in tsconfig.json. You can leave it empty if this is intentional.")
                  /\ log' = log \o <<event("read", tsConfigPath, <<>>)>>
                  /\ UNCHANGED <<quokka, nestedQuokka, newAliases>>
           ELSE traverse(quokkaPath, quokkaAt(quokkaPath))
     IN resume(quokkaPathOf(tsConfigPath))
  /\ UNCHANGED <<files, tsConfig, activeFile, tsConfigPath, nestedConfigs,
                 unreadable, history>>

\* the user invokes the command again; nothing of the finished invocation
\* is kept by the extension
RunAgain ==
  /\ pc = "done"
  /\ Len(history) + 1 < MaxRuns
  /\ history' = Append(history, [errorMessage |-> errorMessage,
                                 newAliases |-> newAliases, log |-> log])
  /\ pc' = "idle"
  /\ errorMessage' = ""
  /\ newAliases' = <<>>
  /\ tsConfigPath' = <<>>
  /\ log' = <<>>
  /\ UNCHANGED <<files, tsConfig, quokka, activeFile, nestedConfigs,
                 nestedQuokka, unreadable>>

Next ==
  \/ \E f \in OptionalFiles : CreateFile(f)
  \/ \E f \in DOMAIN files, s \in Specifiers : AddImport(f, s)
  \/ \E m \in PathMappings : AddPathMapping(m)
  \/ IncludeAliasesStart
  \/ IncludeAliasesResume

Spec == Init /\ [][Next]_vars

----------------------------------------------------------------------------
(* The command in every workspace: with or without an eligible active file, *)
(* tsconfig.json files, paths section and .quokka files                     *)

\* other files that may be open in the editor
ActiveJs == WorkspaceRoot \o <<"/", "a", ".js">>
ActiveDeep == WorkspaceRoot \o <<"/", "sub", "/", "deep", "/", "a", ".ts">>
ActiveFiles == {NoFile, ActiveTs, ActiveJs, ActiveDeep}

\* tsconfig.json and .quokka files below the workspace root
SubConfigFile == WorkspaceRoot \o <<"/", "sub", "/", "tsconfig.json">>
DeepConfigFile == WorkspaceRoot \o <<"/", "sub", "/", "deep", "/", "tsconfig.json">>
NestedConfigFiles == {SubConfigFile, DeepConfigFile}
NestedQuokkaFiles == {quokkaPathOf(c) : c \in NestedConfigFiles}

\* contents of a .quokka file written by a user
QuokkaDocs ==
  { [exists |-> TRUE, plugins |-> <<"alias-quokka-plugin">>, alias |-> OldAlias],
    [exists |-> TRUE, plugins |-> <<"jsdom-quokka-plugin", "alias-quokka-plugin">>,
     alias |-> <<>>, babel |-> TRUE] }

\* the root .quokka file is absent
NoQuokka == [exists |-> FALSE, plugins |-> <<>>, alias |-> <<>>]

\* the file trees of an editor with file f open: a saved .ts file that
\* imports nothing or '@/b', and b.ts in the workspace root or not
CmdTrees(f) ==
  IF f = NoFile \/ ~endsWith(f, <<".ts">>) THEN {<<>>, (FileB :> <<>>)}
  ELSE {(f :> c) @@ t : c \in {<<>>, <<[from |-> SpecAtB]>>},
                         t \in {<<>>, (FileB :> <<>>)}}

InitCmd ==
  /\ activeFile \in ActiveFiles
  /\ files \in CmdTrees(activeFile)
  /\ tsConfig \in {[exists |-> e, hasPaths |-> h,
                     paths |-> IF h THEN <<PathAtOnly>> ELSE <<>>] :
                      e \in BOOLEAN, h \in BOOLEAN}
  /\ nestedConfigs \in SUBSET NestedConfigFiles
  /\ quokka \in QuokkaDocs \cup {NoQuokka}
  /\ nestedQuokka \in UNION {[D -> QuokkaDocs] : D \in SUBSET NestedQuokkaFiles}
  /\ unreadable = {}
  /\ history = <<>>
  /\ pc = "idle"
  /\ newAliases = <<>>
  /\ tsConfigPath = <<>>
  /\ errorMessage = ""
  /\ log = <<>>

NextCmd ==
  \/ IncludeAliasesStart
  \/ \E selection \in {"Yes", "No", ""} : AnswerCreate(selection)
  \/ \E selection \in {"Show .quokka file", "Dismiss", ""} : AnswerShow(selection)
  \/ IncludeAliasesResume
  \/ RunAgain

SpecCmd == InitCmd /\ [][NextCmd]_vars

----------------------------------------------------------------------------
(* The command on every form of the imported module b, readable or not      *)

\* the files the probe of /w/b looks for, and a file named b itself
FileBJs == WorkspaceRoot \o <<"/", "b", ".js">>
FileBIndexTs == WorkspaceRoot \o <<"/", "b", "/", "index", ".ts">>
FileBIndexJs == WorkspaceRoot \o <<"/", "b", "/", "index", ".js">>
FileBPlain == WorkspaceRoot \o <<"/", "b">>

\* the sets of these files that a disk can hold: b is a file or a
\* directory, never both
ModuleForms ==
  {m \in SUBSET {FileB, FileBJs, FileBIndexTs, FileBIndexJs, FileBPlain} :
     FileBPlain \in m => (FileBIndexTs \notin m /\ FileBIndexJs \notin m)}

\* what a.ts imports
ProbeImports ==
  { <<[from |-> SpecAtB]>>, <<[from |-> SpecDotB]>>,
    <<[from |-> SpecAtB], [from |-> SpecDotB]>> }

InitProbe ==
  /\ activeFile = ActiveTs
  /\ files \in {(ActiveTs :> c) @@ [f \in m |-> <<>>] :
                   c \in ProbeImports, m \in ModuleForms}
  /\ unreadable \in SUBSET DOMAIN files
  /\ tsConfig = [exists |-> TRUE, hasPaths |-> TRUE, paths |-> <<PathAtOnly>>]
  /\ quokka \in QuokkaDocs
  /\ nestedConfigs = {}
  /\ nestedQuokka = <<>>
  /\ history = <<>>
  /\ pc = "idle"
  /\ newAliases = <<>>
  /\ tsConfigPath = <<>>
  /\ errorMessage = ""
  /\ log = <<>>

NextProbe ==
  \/ IncludeAliasesStart
  \/ IncludeAliasesResume

SpecProbe == InitProbe /\ [][NextProbe]_vars

----------------------------------------------------------------------------
(* Vocabulary of the properties *)

\* the command ended without an error: the traversal returned newAliases
Returned == pc = "done" /\ errorMessage = ""

TsPaths == parseTsConfigPaths(tsConfig)

QuokkaDir == getPathToQuokkaFile(QuokkaFile)

\* the source files the traversal has read
ReadFiles == {log[i].path : i \in {j \in 1..Len(log) : log[j].op = "read"}} \cap DOMAIN files

\* the paths read by the traversal, in order
TraversalReads ==
  LET idx == {j \in 1..Len(log) : log[j].op = "read" /\ log[j].path \in DOMAIN files}
  IN [i \in 1..Cardinality(idx) |->
        log[CHOOSE j \in idx : Cardinality({k \in idx : k <= j}) = i].path]

SpecifiersOf(fsys, f) == {fsys[f][i].from : i \in 1..Len(fsys[f])}

\* prefix and target prefix of a rule: pattern and first candidate without
\* the trailing wildcard
RulePrefix(tsPath) == replace(tsPath[1], <<"/", "*">>, <<>>)
RuleTarget(tsPath) == replace(tsPath[2][1], <<"/", "*">>, <<>>)

\* the rules of the table whose prefix starts the specifier
MatchingRules(s) == {i \in 1..Len(TsPaths) : startsWith(s, RulePrefix(TsPaths[i]))}

\* the first such rule in table order, 0 when there is none
FirstMatch(s) ==
  IF MatchingRules(s) = {} THEN 0
  ELSE CHOOSE i \in MatchingRules(s) : \A j \in MatchingRules(s) : i <= j

\* target prefix of the rule followed by the part of s after its prefix
Substituted(s, tsPath) ==
  RuleTarget(tsPath) \o SubSeq(s, Len(RulePrefix(tsPath)) + 1, Len(s))

\* the existence probe on traversal root + path
ProbeUnderRoot(path) ==
  assertFileExists(files, pathJoin(<<WorkspaceRoot, QuokkaDir, path>>))

\* the file a relative specifier of file f resolves to, NotFound when none
RelativeTarget(f, s) ==
  assertFileExists(files, pathResolve(pathDirname(f), s))

\* the file an alias specifier resolves to through its first matching rule
AliasTarget(s) ==
  IF FirstMatch(s) = 0 THEN NotFound
  ELSE ProbeUnderRoot(Substituted(s, TsPaths[FirstMatch(s)]))

----------------------------------------------------------------------------
(* C1 *)

\* C1: a traversal started at any file of a finite file tree returns a
\* result, also when files import each other or themselves; it never
\* recurses until the call stack is exhausted.
C1_TraversalReturns == errorMessage # StackOverflow

----------------------------------------------------------------------------
(* C2 *)

\* C2: a specifier that starts with the prefix of more than one rule gets
\* the value substituted by the first matching rule; the later matching
\* rules neither replace that value nor remove the entry.
C2_FirstMatchWins ==
  Returned =>
    \A f \in ReadFiles : \A s \in SpecifiersOf(files, f) :
      (Cardinality(MatchingRules(s)) > 1 /\ AliasTarget(s) # NotFound)
        => /\ s \in DOMAIN newAliases
           /\ newAliases[s] = Substituted(s, TsPaths[FirstMatch(s)])

----------------------------------------------------------------------------
(* C3 *)

\* C3: a specifier that does not start with the first rule's prefix but
\* starts with the prefix of a later rule is matched by that rule, and is
\* recorded with its substituted path when that path exists.
C3_LaterRulesTried ==
  Returned =>
    \A f \in ReadFiles : \A s \in SpecifiersOf(files, f) :
      (FirstMatch(s) > 1 /\ AliasTarget(s) # NotFound)
        => /\ s \in DOMAIN newAliases
           /\ newAliases[s] = Substituted(s, TsPaths[FirstMatch(s)])

----------------------------------------------------------------------------
(* C4 *)

\* the file tree of the README example: a.ts imports '@/b', b.ts exists
ExampleTree == (ActiveTs :> <<[from |-> SpecAtB]>>) @@ (FileB :> <<>>)

\* C4: every entry key -> value of the result has a key that is a specifier
\* of a file the traversal read, the key starts with the prefix of a rule,
\* the value is that rule's target prefix followed by the rest of the key
\* (nothing appended), and the probe succeeds on traversal root + value;
\* for '@/*' -> './*', '@/b' and an existing b.ts the result is exactly
\* { '@/b': './b' }.
C4_EntriesAreResolvedAliases ==
  /\ \A k \in DOMAIN newAliases :
       /\ \E f \in ReadFiles : k \in SpecifiersOf(files, f)
       /\ \E i \in 1..Len(TsPaths) :
            /\ startsWith(k, RulePrefix(TsPaths[i]))
            /\ newAliases[k] = Substituted(k, TsPaths[i])
       /\ ProbeUnderRoot(newAliases[k]) # NotFound
  /\ (pc = "done" /\ TsPaths = <<PathAtOnly>> /\ files = ExampleTree)
       => /\ errorMessage = ""
          /\ newAliases = (SpecAtB :> <<".", "/", "b">>)

C4_Witness ==
  /\ Returned
  /\ TsPaths = <<PathAtOnly>>
  /\ files = ExampleTree
  /\ SpecAtB \in DOMAIN newAliases

----------------------------------------------------------------------------
(* C5 *)

IsRelative(s) == startsWith(s, <<".">>)

\* the files one import away from the files of S
Imported(S) ==
  {AliasTarget(s) : s \in UNION {SpecifiersOf(files, f) : f \in S}}
    \cup UNION {{RelativeTarget(f, s) : s \in {x \in SpecifiersOf(files, f) : IsRelative(x)}}
                : f \in S}

RECURSIVE ReachedFrom(_)
ReachedFrom(S) ==
  LET next == S \cup (Imported(S) \ {NotFound})
  IN IF next = S THEN S ELSE ReachedFrom(next)

\* the start file and every file reached from it through resolvable alias
\* imports or resolvable relative imports
Reached == ReachedFrom({activeFile})

\* C5: for the start file and every file reached from it, every specifier
\* that matches an alias rule and whose substituted path exists is a key of
\* the returned result.
C5_TransitiveAndComplete ==
  Returned =>
    \A f \in Reached : \A s \in SpecifiersOf(files, f) :
      AliasTarget(s) # NotFound => s \in DOMAIN newAliases

----------------------------------------------------------------------------
(* C6 *)

\* C6: a specifier that starts with '.' is never a key of the result; when
\* it resolves to an existing file, that file is traversed and the alias
\* entries of its resolvable alias imports are in the result.
C6_RelativeImportsAreFollowed ==
  Returned =>
    \A f \in ReadFiles : \A s \in {x \in SpecifiersOf(files, f) : IsRelative(x)} :
      /\ s \notin DOMAIN newAliases
      /\ RelativeTarget(f, s) # NotFound =>
            /\ RelativeTarget(f, s) \in ReadFiles
            /\ \A t \in SpecifiersOf(files, RelativeTarget(f, s)) :
                 AliasTarget(t) # NotFound =>
                   /\ t \in DOMAIN newAliases
                   /\ newAliases[t] = Substituted(t, TsPaths[FirstMatch(t)])

----------------------------------------------------------------------------
(* C7 *)

\* a specifier that starts with no alias prefix and not with '.'
IsBare(s) == ~IsRelative(s) /\ MatchingRules(s) = {}

\* the file tree without the import statements of bare specifiers
WithoutBare ==
  [f \in DOMAIN files |-> SelectSeq(files[f], LAMBDA l : ~IsBare(l.from))]

\* C7: a bare specifier adds no entry and causes no file to be read: the
\* command ends as it does on the same tree without the bare imports, with
\* the same result and the same files read, and no key is bare.
C7_BareSpecifiersIgnored ==
  (pc = "done" /\ tsConfig.hasPaths) =>
    LET t == generateNewAliases(WithoutBare, activeFile, TsPaths, QuokkaDir, 1)
    IN /\ errorMessage = t.err
       /\ t.err = "" => (newAliases = t.aliases /\ TraversalReads = pathsRead(t.trace))
       /\ \A k \in DOMAIN newAliases : ~IsBare(k)

C7_Witness ==
  /\ Returned
  /\ SpecBare \in SpecifiersOf(files, activeFile)
  /\ IsBare(SpecBare)
  /\ FileB \in DOMAIN files
  /\ FileB \notin ReadFiles
  /\ newAliases # <<>>

----------------------------------------------------------------------------
(* C8 *)

\* the specifier of file f is alias-rooted or relative and the file it
\* names does not exist under the existence probe
IsMiss(f, s) ==
  /\ IsRelative(s) \/ MatchingRules(s) # {}
  /\ IsRelative(s) => RelativeTarget(f, s) = NotFound
  /\ MatchingRules(s) # {} => AliasTarget(s) = NotFound

\* the file tree without the i-th import statement of file f
WithoutLine(f, i) ==
  [files EXCEPT ![f] = SubSeq(@, 1, i - 1) \o SubSeq(@, i + 1, Len(@))]

\* the file tree with only a.ts, which imports '@/b'
MissingTree == (ActiveTs :> <<[from |-> SpecAtB]>>)

\* C8: a specifier whose target does not exist adds no entry and raises no
\* error, and the command ends as it does on the same tree without that
\* import statement: same outcome, same result, same files read.  For
\* '@/*' -> './*', '@/b' and no b file the result is empty.
C8_MissesAreSkipped ==
  (pc = "done" /\ tsConfig.hasPaths) =>
    /\ \A f \in ReadFiles : \A i \in 1..Len(files[f]) :
         IsMiss(f, files[f][i].from) =>
           LET t == generateNewAliases(WithoutLine(f, i), activeFile, TsPaths,
                                       QuokkaDir, 1)
           IN /\ errorMessage = t.err
              /\ t.err = "" => (newAliases = t.aliases /\ TraversalReads = pathsRead(t.trace))
    /\ (TsPaths = <<PathAtOnly>> /\ files = MissingTree)
         => (errorMessage = "" /\ newAliases = <<>>)

C8_Witness ==
  /\ Returned
  /\ Len(files[activeFile]) = 2
  /\ IsMiss(activeFile, files[activeFile][1].from)
  /\ files[activeFile][2].from \in DOMAIN newAliases

----------------------------------------------------------------------------
(* C9 *)

\* positions of the log where the output document is written
Writes == {i \in 1..Len(log) : log[i].op = "write"}

\* the alias mapping read from the output document before position i
AliasBefore(i) ==
  LET rd == {j \in 1..(i - 1) : log[j].op = "read" /\ log[j].path = log[i].path}
  IN log[CHOOSE j \in rd : \A k \in rd : k <= j].alias

\* C9: the written alias mapping is the union of the mapping the document
\* held before and the traversal result; a key of both takes the new value,
\* a key only of the old mapping keeps its value, and no key is removed.
C9_WriteMergesByUnion ==
  /\ \A i \in Writes :
       LET old == AliasBefore(i)
           written == log[i].alias
       IN /\ DOMAIN written = (DOMAIN old) \cup (DOMAIN newAliases)
          /\ \A k \in DOMAIN newAliases : written[k] = newAliases[k]
          /\ \A k \in (DOMAIN old) \ (DOMAIN newAliases) : written[k] = old[k]
          /\ quokka.alias = written
  /\ \A k \in DOMAIN OldAlias : k \in DOMAIN quokka.alias

C9_Witness ==
  /\ Writes # {}
  /\ SpecAtB \in DOMAIN newAliases
  /\ SpecAtSubB \in DOMAIN newAliases
  /\ quokka.alias[SpecAtB] # OldAlias[SpecAtB]
  /\ quokka.alias[<<"@", "/", "qux">>] = <<".", "/", "qux">>

----------------------------------------------------------------------------
(* C10 *)

\* the table with the candidates after the first of every mapping replaced
WithLaterCandidates(tsPaths, later) ==
  [i \in 1..Len(tsPaths) |-> <<tsPaths[i][1], <<tsPaths[i][2][1]>> \o later>>]

LaterCandidates ==
  { <<>>,
    << <<".", "/", "sub", "/", "*">> >>,
    << <<".", "/", "sub", "/", "*">>, <<".", "/", "o", "/", "*">> >> }

\* the path a specifier gets from the k-th candidate of a rule
SubstitutedBy(s, tsPath, k) ==
  replace(tsPath[2][k], <<"/", "*">>, <<>>) \o SubSeq(s, Len(RulePrefix(tsPath)) + 1, Len(s))

\* C10: the result depends only on the first candidate of each mapping:
\* with any other candidates after the first the command ends the same way
\* with the same result, and a specifier whose first-candidate path does
\* not exist has no entry, also when a later candidate's path exists.
C10_OnlyFirstCandidate ==
  (pc = "done" /\ tsConfig.hasPaths) =>
    /\ \A later \in LaterCandidates :
         LET t == generateNewAliases(files, activeFile,
                    WithLaterCandidates(TsPaths, later), QuokkaDir, 1)
         IN /\ errorMessage = t.err
            /\ t.err = "" => newAliases = t.aliases
    /\ \A f \in ReadFiles : \A s \in SpecifiersOf(files, f) :
         (FirstMatch(s) # 0 /\ AliasTarget(s) = NotFound) => s \notin DOMAIN newAliases

C10_Witness ==
  /\ Returned
  /\ SpecAtB \in SpecifiersOf(files, activeFile)
  /\ FirstMatch(SpecAtB) # 0
  /\ Len(TsPaths[FirstMatch(SpecAtB)][2]) > 1
  /\ AliasTarget(SpecAtB) = NotFound
  /\ ProbeUnderRoot(SubstitutedBy(SpecAtB, TsPaths[FirstMatch(SpecAtB)], 2)) # NotFound
  /\ SpecAtB \notin DOMAIN newAliases
  /\ newAliases # <<>>

----------------------------------------------------------------------------
(* C11 *)

\* the part of a log made by the traversal: its reads and assignments
TraversalOf(l) ==
  SelectSeq(l, LAMBDA e : e.op = "assign" \/ (e.op = "read" /\ e.path \in DOMAIN files))

\* the invocation with log l reached the traversal: updateQuokkaAliases
\* read the .quokka file, which it does just before it starts the traversal
\* from the active file
Traversed(l) ==
  \E i \in 1..Len(l) : l[i].op = "read" /\ endsWith(l[i].path, <<".quokka">>)

----------------------------------------------------------------------------
(* C12 *)

RECURSIVE ConfigAbove(_)
\* directory d, or a directory above it up to the workspace root, holds a
\* tsconfig.json
ConfigAbove(d) ==
  \/ diskExists(d \o <<"/", "tsconfig.json">>)
  \/ (d # WorkspaceRoot /\ Len(d) > 1 /\ ConfigAbove(pathDirname(d)))

\* the four preconditions that can fail before the command is invoked
PreconditionFails ==
  \/ activeFile = NoFile
  \/ ~endsWith(activeFile, <<".ts">>)
  \/ ~ConfigAbove(pathDirname(activeFile))
  \/ ~tsConfig.hasPaths

\* the step in which the user answers the first prompt with No or dismisses it
Declined == pc = "askCreate" /\ pc' # "askShow"

\* positions of a log where the output document is created or written
Modifications(l) == {i \in 1..Len(l) : l[i].op \in {"write", "create"}}

\* C12: with no active file, an active file that is not a .ts file, no
\* tsconfig.json at or above the active file, a tsconfig without paths
\* section, or a missing output document that the user declines to create,
\* the command ends with an error message and no step of it creates or
\* modifies an output document.
C12_PreconditionErrorsWriteNothing ==
  [][(pc # "done" /\ (PreconditionFails \/ Declined)) =>
       /\ quokka' = quokka
       /\ nestedQuokka' = nestedQuokka
       /\ Modifications(log') = {}
       /\ (pc' = "done" => errorMessage' # "")]_vars

----------------------------------------------------------------------------
(* C13 *)

\* positions of the log where the traversal reads a file or assigns an entry
TraversalSteps ==
  {i \in 1..Len(log) :
     log[i].op = "assign" \/ (log[i].op = "read" /\ log[i].path \in DOMAIN files)}

\* C13: a run that ends without error has written the output document
\* exactly once, as its last step, and in no run is the output document
\* written before a read or an assignment of the traversal.
C13_OneWriteAfterTraversal ==
  /\ Returned =>
        /\ Cardinality(Modifications(log)) = 1
        /\ log[Len(log)].op = "write"
        /\ log[Len(log)].path = quokkaPathOf(tsConfigPath)
  /\ \A i \in Modifications(log) : \A j \in TraversalSteps : j < i

C13_Witness ==
  /\ Returned
  /\ Cardinality(ReadFiles) > 1
  /\ Cardinality(DOMAIN newAliases) > 1
  /\ Cardinality(Modifications(log)) = 1

----------------------------------------------------------------------------
(* C14 *)

RECURSIVE ReachedReading(_)
\* the files of S and every file reached from them through the imports of
\* files that can be read
ReachedReading(S) ==
  LET next == S \cup (Imported(S \ unreadable) \ {NotFound})
  IN IF next = S THEN S ELSE ReachedReading(next)

\* the traversal from the active file comes to a file that exists and
\* cannot be read
ReadFails == ReachedReading({activeFile}) \cap unreadable # {}

\* C14: when the traversal comes to a file that the probe found and that
\* cannot be read, the command ends with the read error as its message,
\* and the output document is not written: it keeps the content it had,
\* also when entries were found before the failure.
C14_ReadFailureWritesNothing ==
  [][(pc = "awaited" /\ tsConfig.hasPaths /\ ReadFails) =>
       /\ pc' = "done"
       /\ errorMessage' = ReadError
       /\ quokka' = quokka
       /\ nestedQuokka' = nestedQuokka
       /\ newAliases' = <<>>
       /\ Modifications(log') = {}]_vars

C14_Witness ==
  /\ pc = "done"
  /\ errorMessage = ReadError
  /\ \E i \in 1..Len(log) : log[i].op = "assign"
  /\ FileB \in unreadable
  /\ ActiveTs \in ReadFiles
  /\ quokka \in QuokkaDocs

----------------------------------------------------------------------------
(* C15 *)

RECURSIVE DeepestConfig(_)
\* the tsconfig.json of the first directory that holds one, going from
\* directory d upwards to the workspace root; <<>> when there is none
DeepestConfig(d) ==
  IF diskExists(d \o <<"/", "tsconfig.json">>) THEN d \o <<"/", "tsconfig.json">>
  ELSE IF d = WorkspaceRoot \/ Len(d) <= 1 THEN <<>>
  ELSE DeepestConfig(pathDirname(d))

NoTsConfig == "No tsconfig.json file found higher up in the directory"

\* C15: for an active .ts file the lookup returns the tsconfig.json of the
\* deepest directory that holds one among the file's directory and the
\* directories above it up to the workspace root, and the command ends with
\* the 'no tsconfig.json' error exactly when none of them holds one.
C15_DeepestConfigIsFound ==
  /\ pc \in {"awaited", "askCreate", "askShow"} =>
        /\ tsConfigPath # <<>>
        /\ tsConfigPath = DeepestConfig(pathDirname(activeFile))
  /\ (pc = "done" /\ tsConfigPath = <<>> /\ endsWith(activeFile, <<".ts">>)) =>
        /\ DeepestConfig(pathDirname(activeFile)) = <<>>
        /\ errorMessage = NoTsConfig
  /\ errorMessage = NoTsConfig => DeepestConfig(pathDirname(activeFile)) = <<>>

C15_Witness ==
  /\ pc = "awaited"
  /\ activeFile = ActiveDeep
  /\ tsConfig.exists
  /\ SubConfigFile \in nestedConfigs
  /\ DeepConfigFile \notin nestedConfigs
  /\ tsConfigPath = SubConfigFile

----------------------------------------------------------------------------
(* C16 *)

\* C16: within one traversal no file is read twice, whether it is reached
\* again through a cycle or through a second import that leads to it.
C16_EachFileReadOnce ==
  \A i \in 1..Len(TraversalReads) : \A j \in 1..Len(TraversalReads) :
    i # j => TraversalReads[i] # TraversalReads[j]

----------------------------------------------------------------------------
(* C17 *)

\* positions of the log where the traversal assigns an entry to a result
Assignments == {i \in 1..Len(log) : log[i].op = "assign"}

\* C17: all assignments of one traversal to the same key carry the same
\* value (merges only copy assigned values), so the value a key ends with
\* does not depend on the order of the assignments and merges.
C17_SameKeySameValue ==
  \A i \in Assignments : \A j \in Assignments :
    log[i].path = log[j].path => log[i].alias = log[j].alias

----------------------------------------------------------------------------
(* C18 *)

\* the candidate path of module b, which both '@/b' and './b' of a.ts give
CandidateB == WorkspaceRoot \o <<"/", "b">>

\* the first of b.ts, b.js, b/index.ts, b/index.js that exists
ExpectedB ==
  IF FileB \in DOMAIN files THEN FileB
  ELSE IF FileBJs \in DOMAIN files THEN FileBJs
  ELSE IF FileBIndexTs \in DOMAIN files THEN FileBIndexTs
  ELSE IF FileBIndexJs \in DOMAIN files THEN FileBIndexJs
  ELSE NotFound

\* C18: the probe of candidate p finds the first of p.ts, p.js, p/index.ts,
\* p/index.js that exists, and nothing when none of them exists, also when
\* a file named p exists; the traversal from a.ts, which imports module b,
\* goes on with exactly that file and records '@/b' exactly when the probe
\* finds one.
C18_ProbeOrder ==
  /\ assertFileExists(files, CandidateB) = ExpectedB
  /\ FileBPlain \notin ReadFiles
  /\ (pc = "done" /\ ActiveTs \notin unreadable) =>
        /\ ExpectedB = NotFound =>
              (errorMessage = "" /\ ReadFiles = {ActiveTs} /\ newAliases = <<>>)
        /\ (ExpectedB # NotFound /\ ExpectedB \in unreadable) =>
              (errorMessage = ReadError /\ ReadFiles = {ActiveTs})
        /\ (ExpectedB # NotFound /\ ExpectedB \notin unreadable) =>
              /\ errorMessage = ""
              /\ ReadFiles = {ActiveTs, ExpectedB}
              /\ SpecAtB \in SpecifiersOf(files, ActiveTs) <=> SpecAtB \in DOMAIN newAliases

C18_Witness ==
  /\ pc = "done"
  /\ errorMessage = ""
  /\ FileB \notin DOMAIN files
  /\ FileBJs \in DOMAIN files
  /\ FileBIndexTs \in DOMAIN files
  /\ FileBJs \in ReadFiles
  /\ FileBIndexTs \notin ReadFiles

----------------------------------------------------------------------------
(* C19 *)

\* positions of a log where the output document is created
Creations(l) == {i \in 1..Len(l) : l[i].op = "create"}

\* the skeleton, as the claim gives it
SkeletonOfClaim ==
  [exists |-> TRUE, plugins |-> <<"alias-quokka-plugin">>, alias |-> <<>>]

\* C19: an invocation that creates the output document writes exactly the
\* skeleton to the path next to the tsconfig.json, does nothing else to it,
\* reads no source file, assigns no entry and ends with the 'no .quokka
\* file' error; the entries are written by the next invocation.
C19_CreatesSkeletonThenFails ==
  /\ pc = "askShow" => Creations(log) # {}
  /\ \A i \in Creations(log) :
       /\ log = <<event("create", quokkaPathOf(tsConfigPath), <<>>)>>
       /\ quokkaAt(log[i].path) = SkeletonOfClaim
       /\ newAliases = <<>>
       /\ pc \in {"askShow", "done"}
       /\ pc = "done" => errorMessage = NoQuokkaFile
  /\ (Returned /\ history # <<>> /\ Creations(history[Len(history)].log) # {}) =>
       /\ Cardinality(Writes) = 1
       /\ quokkaAt(quokkaPathOf(tsConfigPath)).alias = newAliases

C19_Witness ==
  /\ Returned
  /\ history # <<>>
  /\ Creations(history[Len(history)].log) # {}
  /\ history[Len(history)].errorMessage = NoQuokkaFile
  /\ newAliases # <<>>
  /\ quokka.alias = newAliases

----------------------------------------------------------------------------
(* C20 *)

\* documents d and e have the same fields with the same values, but for
\* the alias mapping
SameButAlias(d, e) ==
  /\ DOMAIN d = DOMAIN e
  /\ \A k \in DOMAIN d \ {"alias"} : d[k] = e[k]

\* C20: a step of the command changes no source file and no tsconfig.json,
\* and no .quokka file but the one next to the tsconfig.json it found; when
\* it writes that document after the traversal, every field but the alias
\* mapping keeps its value.
C20_OnlyAliasChanges ==
  [][/\ files' = files
     /\ tsConfig' = tsConfig
     /\ nestedConfigs' = nestedConfigs
     /\ quokka' # quokka => quokkaPathOf(tsConfigPath) = QuokkaFile
     /\ DOMAIN nestedQuokka \subseteq DOMAIN nestedQuokka'
     /\ \A p \in DOMAIN nestedQuokka' :
          (p \notin DOMAIN nestedQuokka \/ nestedQuokka'[p] # nestedQuokka[p])
            => p = quokkaPathOf(tsConfigPath)
     /\ pc = "awaited" =>
          /\ SameButAlias(quokka, quokka')
          /\ \A p \in DOMAIN nestedQuokka : SameButAlias(nestedQuokka[p], nestedQuokka'[p])
    ]_vars

C20_Witness ==
  /\ Returned
  /\ Writes # {}
  /\ "babel" \in DOMAIN quokka
  /\ quokka.plugins = <<"jsdom-quokka-plugin", "alias-quokka-plugin">>
  /\ quokka.alias # <<>>
  /\ DOMAIN nestedQuokka # {}

====
